---- MODULE Spec2Model ----
(***************************************************************************)
(* Visual review pipeline of ai-agents-py/reviewer/review.py:              *)
(* capture -> compare -> report, one pass over VIEWPORTS.                  *)
(*                                                                         *)
(* Images are small pixel arrays (row-major), a pixel is <<R,G,B,A>> or    *)
(* <<R,G,B>> with 8-bit channels.  A ratio is an exact fraction            *)
(* <<numerator, denominator>>; Python's float division and float compare   *)
(* are monotone roundings of it.                                           *)
(***************************************************************************)
EXTENDS Integers, Sequences, FiniteSets, TLC

\* Largest number of pixels of a modelled image (width * height).
MaxPixels == 2

\* ------------------------------------------------------------------ data

\* review.py:12-15, labels in registry order (widths/heights only size the
\* browser page; the full-page screenshot's size is the page's).
VIEWPORTS == << [label |-> "desktop", w |-> 1440, h |-> 900],
                [label |-> "mobile",  w |-> 390,  h |-> 844] >>

BLACK     == <<0, 0, 0, 255>>
NEARBLACK == <<0, 0, 1, 255>>
WHITE     == <<255, 255, 255, 255>>

\* Pixels of a rendered page / of an RGBA reference file / of an RGB reference file.
PalettePage == {BLACK, WHITE}
PaletteRGBA == {BLACK, NEARBLACK, WHITE}
PaletteRGB  == {<<255, 255, 255>>}

Sizes == {s \in (1..MaxPixels) \X (1..MaxPixels) : s[1] * s[2] <= MaxPixels}

ImagesOf(mode, palette) ==
  UNION {[mode : {mode}, w : {s[1]}, h : {s[2]}, px : [1..(s[1] * s[2]) -> palette]]
           : s \in Sizes}

\* What page.screenshot can write: a valid PNG of the rendered page.
Screenshots == ImagesOf("RGBA", PalettePage)

NoFile  == [mode |-> "absent", w |-> 0, h |-> 0, px |-> <<>>]
Corrupt == [mode |-> "corrupt", w |-> 0, h |-> 0, px |-> <<>>]
Unread  == [mode |-> "unread", w |-> 0, h |-> 0, px |-> <<>>]

\* What may sit at REF_DIR/<label>.png: nothing, undecodable bytes, or an image.
ReferenceFiles ==
  {NoFile, Corrupt} \cup ImagesOf("RGBA", PaletteRGBA) \cup ImagesOf("RGB", PaletteRGB)

NoImage == [mode |-> "none", w |-> 0, h |-> 0, px |-> <<>>]

\* THRESHOLD = float(os.getenv("THRESHOLD", "0.01")): the default and three overrides.
Thresholds == {<<1, 100>>, <<0, 1>>, <<1, 2>>, <<-1, 100>>}

\* ------------------------------------------------------------- PIL model

size(im) == <<im.w, im.h>>

Min(x, y) == IF x < y THEN x ELSE y
Abs(x) == IF x < 0 THEN -x ELSE x

\* Pixel at column x, row y (0-based) of a row-major image.
getpixel(im, x, y) == im.px[y * im.w + x + 1]

\* Image.convert("RGBA"): RGB gains an opaque alpha channel.
convertRGBA(im) ==
  [mode |-> "RGBA", w |-> im.w, h |-> im.h,
   px |-> [k \in 1..(im.w * im.h) |->
             IF Len(im.px[k]) = 3 THEN Append(im.px[k], 255) ELSE im.px[k]]]

\* Variant: saturating im1 - im2 (ImageChops.subtract) in place of |im1 - im2|.
differenceSub(im1, im2) ==
  LET w == Min(im1.w, im2.w)
      h == Min(im1.h, im2.h)
  IN [mode |-> im1.mode, w |-> w, h |-> h,
      px |-> [k \in 1..(w * h) |->
                LET x == (k - 1) % w
                    y == (k - 1) \div w
                    p == getpixel(im1, x, y)
                    q == getpixel(im2, x, y)
                IN [c \in 1..4 |-> IF p[c] > q[c] THEN p[c] - q[c] ELSE 0]]]

\* ImageChops.difference: per-channel |a - b| over the common (minimum) extent.
difference(im1, im2) ==
  LET w == Min(im1.w, im2.w)
      h == Min(im1.h, im2.h)
  IN [mode |-> im1.mode, w |-> w, h |-> h,
      px |-> [k \in 1..(w * h) |->
                LET x == (k - 1) % w
                    y == (k - 1) \div w
                    p == getpixel(im1, x, y)
                    q == getpixel(im2, x, y)
                IN [c \in 1..4 |-> Abs(p[c] - q[c])]]]

\* Image.convert("L") of an RGBA image: ITU-R 601-2 luma of R,G,B in 16.16
\* fixed point, alpha dropped.
convertL(im) ==
  [mode |-> "L", w |-> im.w, h |-> im.h,
   px |-> [k \in 1..(im.w * im.h) |->
             (im.px[k][1] * 19595 + im.px[k][2] * 38470 + im.px[k][3] * 7471 + 32768)
               \div 65536]]

\* Image.resize(size): a copy when the size is unchanged, otherwise some
\* resampled image of the requested size (the filter is the library's).
resize(im, sz) ==
  IF sz = size(im) THEN {im}
  ELSE [mode : {im.mode}, w : {sz[1]}, h : {sz[2]},
        px : [1..(sz[1] * sz[2]) -> PaletteRGBA]]

\* Variant: counts the pixels whose difference is zero.
ratioOfZeroCount(im1, im2) ==
  LET diff    == convertL(difference(im1, im2))
      total   == diff.w * diff.h
      nonzero == Cardinality({k \in 1..total : diff.px[k] = 0})
  IN <<nonzero, total>>

\* review.py:20-23 on an equal-sized pair: <<nonzero, total>>.
ratioOf(im1, im2) ==
  LET diff    == convertL(difference(im1, im2))
      total   == diff.w * diff.h
      nonzero == Cardinality({k \in 1..total : diff.px[k] # 0})
  IN <<nonzero, total>>

\* Variant: the reference is compared as it is, without the resize.
mismatch_ratioNoResize(im1, im2) == {ratioOf(im1, im2)}

\* review.py:17-23: the possible results, one per outcome of the resize.
mismatch_ratio(im1, im2) ==
  {ratioOf(im1, z) : z \in (IF size(im1) # size(im2) THEN resize(im2, size(im1))
                                                      ELSE {im2})}

\* Variant: >= in place of >.
GreaterEq(p, q) == p[1] * q[2] >= q[1] * p[2]

\* ratio > THRESHOLD on fractions with positive denominators.
Greater(p, q) == p[1] * q[2] > q[1] * p[2]

\* round(ratio * 100, 2), in hundredths of a percent (no ties below 64 pixels).
pctOf(p) == (20000 * p[1] + p[2]) \div (2 * p[2])

statusOf(p, thr) == IF Greater(p, thr) THEN "Fail" ELSE "Pass"

\* --------------------------------------------------------------- state

VARIABLES
  pc,            \* position in main() / screenshot()
  vp,            \* index into VIEWPORTS of the current loop iteration
  THRESHOLD,     \* module constant read from the environment at import
  report,        \* the list `report` of main()
  reportFile,    \* content of OUT_DIR/report.md written by this run, or NoReport
  reportWrites,  \* number of write_text calls on report.md
  files,         \* artifact paths written by this run
  shot,          \* content of actual-<label>.png of the current viewport
  ref,           \* content of REF_DIR/<label>.png of the current viewport
  a, r,          \* decoded candidate and reference (locals of main)
  ratio,         \* local `ratio` of main, <<nonzero, total>>
  d,             \* local `d` of main, the image saved as diff-<label>.png
  browser,       \* the Chromium instances alive, each named by its launch number
  launches,      \* number of browser instances launched so far
  attempts,      \* per viewport index: number of screenshot() calls
  error,         \* the uncaught exception, or NoError
  exitStatus,    \* "running", then the process exit status "0" or "1"
  stdout         \* TRUE once the confirmation line is printed

vars == <<pc, vp, THRESHOLD, report, reportFile, reportWrites, files, shot, ref,
          a, r, ratio, d, browser, launches, attempts, error, exitStatus, stdout>>

NumViewports == Len(VIEWPORTS)

label == IF vp \in 1..NumViewports THEN VIEWPORTS[vp].label ELSE "none"

NoRatio  == <<0, 0>>
NoError  == [vp |-> 0, kind |-> "none"]
NoReport == <<>>

TitleBlock == [kind |-> "title", label |-> "", pct |-> 0, status |-> ""]
HintsBlock == [kind |-> "hints", label |-> "", pct |-> 0, status |-> ""]
SkippedSection(l) == [kind |-> "skipped", label |-> l, pct |-> 0, status |-> ""]
ComparedSection(l, p, s) == [kind |-> "compared", label |-> l, pct |-> p, status |-> s]

actualPath(l) == <<"actual", l>>
diffPath(l)   == <<"diff", l>>
reportPath    == <<"report", "md">>

Init ==
  /\ pc = "start"
  /\ vp = 1
  /\ THRESHOLD \in Thresholds
  /\ report = <<>>
  /\ reportFile = NoReport
  /\ reportWrites = 0
  /\ files = {}
  /\ shot = NoFile
  /\ ref = Unread
  /\ a = NoImage
  /\ r = NoImage
  /\ ratio = NoRatio
  /\ d = NoImage
  /\ browser = {}
  /\ launches = 0
  /\ attempts = [k \in 1..NumViewports |-> 0]
  /\ error = NoError
  /\ exitStatus = "running"
  /\ stdout = FALSE

\* An exception nothing catches: main() unwinds, the interpreter prints the
\* traceback and exits with status 1.
Raise(kind) ==
  /\ pc' = "crashed"
  /\ error' = [vp |-> vp, kind |-> kind]
  /\ exitStatus' = "1"

\* review.py:35-36
Start ==
  /\ pc = "start"
  /\ report' = <<TitleBlock>>
  /\ pc' = "loop"
  /\ UNCHANGED <<vp, THRESHOLD, reportFile, reportWrites, files, shot, ref, a, r,
                 ratio, d, browser, launches, attempts, error, exitStatus, stdout>>

\* review.py:37-42, 26-28: next viewport; `ref` names whatever sits at
\* REF_DIR/<label>.png during this run; screenshot() launches a browser.
Launch ==
  /\ pc = "loop"
  /\ vp <= NumViewports
  /\ ref' \in ReferenceFiles
  /\ browser' = browser \cup {launches + 1}
  /\ launches' = launches + 1
  /\ attempts' = [attempts EXCEPT ![vp] = @ + 1]
  /\ pc' = "goto"
  /\ UNCHANGED <<vp, THRESHOLD, report, reportFile, reportWrites, files, shot,
                 a, r, ratio, d, error, exitStatus, stdout>>

\* Variant: a failed navigation is retried with a new screenshot() call.
GotoRetry ==
  /\ pc = "goto"
  /\ \/ /\ pc' = "wait"
        /\ UNCHANGED browser
     \/ /\ pc' = "loop"
        /\ browser' = browser \ {launches}
  /\ UNCHANGED <<vp, THRESHOLD, report, reportFile, reportWrites, files, shot, ref,
                 a, r, ratio, d, launches, attempts, error, exitStatus, stdout>>

\* review.py:29; on failure the `with sync_playwright()` exit stops the driver
\* and the browser this call launched, then the exception leaves main().
Goto ==
  /\ pc = "goto"
  /\ \/ /\ pc' = "wait"
        /\ UNCHANGED <<browser, error, exitStatus>>
     \/ /\ Raise("NavigationError")
        /\ browser' = browser \ {launches}
  /\ UNCHANGED <<vp, THRESHOLD, report, reportFile, reportWrites, files, shot, ref,
                 a, r, ratio, d, launches, attempts, stdout>>

\* Variant: no `with` block, a timeout skips browser.close() and leaves the
\* browser running.
WaitForSelectorLeak ==
  /\ pc = "wait"
  /\ \/ /\ pc' = "screenshot"
        /\ UNCHANGED <<error, exitStatus>>
     \/ Raise("CaptureTimeout")
  /\ UNCHANGED <<vp, THRESHOLD, report, reportFile, reportWrites, files, shot, ref,
                 a, r, ratio, d, browser, launches, attempts, stdout>>

\* review.py:30
WaitForSelector ==
  /\ pc = "wait"
  /\ \/ /\ pc' = "screenshot"
        /\ UNCHANGED <<browser, error, exitStatus>>
     \/ /\ Raise("CaptureTimeout")
        /\ browser' = browser \ {launches}
  /\ UNCHANGED <<vp, THRESHOLD, report, reportFile, reportWrites, files, shot, ref,
                 a, r, ratio, d, launches, attempts, stdout>>

\* review.py:31
Screenshot ==
  /\ pc = "screenshot"
  /\ \E img \in Screenshots : shot' = img
  /\ files' = files \cup {actualPath(label)}
  /\ pc' = "close"
  /\ UNCHANGED <<vp, THRESHOLD, report, reportFile, reportWrites, ref, a, r, ratio,
                 d, browser, launches, attempts, error, exitStatus, stdout>>

\* review.py:32
Close ==
  /\ pc = "close"
  /\ browser' = browser \ {launches}
  /\ pc' = "check_ref"
  /\ UNCHANGED <<vp, THRESHOLD, report, reportFile, reportWrites, files, shot, ref,
                 a, r, ratio, d, launches, attempts, error, exitStatus, stdout>>

\* Variant: no exists() test, opening the missing reference raises.
CheckRefRaise ==
  /\ pc = "check_ref"
  /\ IF ref = NoFile
     THEN /\ Raise("FileNotFoundError")
          /\ UNCHANGED <<report, vp, shot, ref>>
     ELSE /\ pc' = "decode"
          /\ UNCHANGED <<report, vp, shot, ref, error, exitStatus>>
  /\ UNCHANGED <<THRESHOLD, reportFile, reportWrites, files, a, r, ratio, d,
                 browser, launches, attempts, stdout>>

\* Variant: a missing reference continues without appending a section.
CheckRefSilent ==
  /\ pc = "check_ref"
  /\ IF ref = NoFile
     THEN /\ vp' = vp + 1
          /\ pc' = "loop"
          /\ shot' = NoFile
          /\ ref' = Unread
          /\ UNCHANGED report
     ELSE /\ pc' = "decode"
          /\ UNCHANGED <<report, vp, shot, ref>>
  /\ UNCHANGED <<THRESHOLD, reportFile, reportWrites, files, a, r, ratio, d,
                 browser, launches, attempts, error, exitStatus, stdout>>

\* review.py:43-45: ref.exists(); a missing reference appends the Skipped
\* section and continues with the next viewport.
CheckRef ==
  /\ pc = "check_ref"
  /\ IF ref = NoFile
     THEN /\ report' = Append(report, SkippedSection(label))
          /\ vp' = vp + 1
          /\ pc' = "loop"
          /\ shot' = NoFile
          /\ ref' = Unread
     ELSE /\ pc' = "decode"
          /\ UNCHANGED <<report, vp, shot, ref>>
  /\ UNCHANGED <<THRESHOLD, reportFile, reportWrites, files, a, r, ratio, d,
                 browser, launches, attempts, error, exitStatus, stdout>>

\* review.py:46-47: Image.open(...).convert("RGBA") of the screenshot, then of
\* the reference; Image.open raises on bytes it cannot identify.
Decode ==
  /\ pc = "decode"
  /\ a' = convertRGBA(shot)
  /\ IF ref = Corrupt
     THEN /\ Raise("DecodeError")
          /\ UNCHANGED r
     ELSE /\ r' = convertRGBA(ref)
          /\ pc' = "compare"
          /\ UNCHANGED <<error, exitStatus>>
  /\ UNCHANGED <<vp, THRESHOLD, report, reportFile, reportWrites, files, shot, ref,
                 ratio, d, browser, launches, attempts, stdout>>

\* review.py:49
Compare ==
  /\ pc = "compare"
  /\ \E q \in mismatch_ratio(a, r) : ratio' = q
  /\ pc' = "diff"
  /\ UNCHANGED <<vp, THRESHOLD, report, reportFile, reportWrites, files, shot, ref,
                 a, r, d, browser, launches, attempts, error, exitStatus, stdout>>

\* Variant: the diff is saved only for a failing viewport.
SaveDiffOnFail ==
  /\ pc = "diff"
  /\ d' = difference(a, r)
  /\ files' = IF Greater(ratio, THRESHOLD) THEN files \cup {diffPath(label)} ELSE files
  /\ pc' = "append"
  /\ UNCHANGED <<vp, THRESHOLD, report, reportFile, reportWrites, shot, ref, a, r,
                 ratio, browser, launches, attempts, error, exitStatus, stdout>>

\* review.py:51-52
SaveDiff ==
  /\ pc = "diff"
  /\ d' = difference(a, r)
  /\ files' = files \cup {diffPath(label)}
  /\ pc' = "append"
  /\ UNCHANGED <<vp, THRESHOLD, report, reportFile, reportWrites, shot, ref, a, r,
                 ratio, browser, launches, attempts, error, exitStatus, stdout>>

\* Variant: the report file is rewritten after every compared viewport.
AppendSectionWriting ==
  /\ pc = "append"
  /\ report' = Append(report,
                      ComparedSection(label, pctOf(ratio), statusOf(ratio, THRESHOLD)))
  /\ reportFile' = report'
  /\ reportWrites' = reportWrites + 1
  /\ files' = files \cup {reportPath}
  /\ vp' = vp + 1
  /\ pc' = "loop"
  /\ shot' = NoFile
  /\ ref' = Unread
  /\ a' = NoImage
  /\ r' = NoImage
  /\ ratio' = NoRatio
  /\ d' = NoImage
  /\ UNCHANGED <<THRESHOLD, browser, launches, attempts, error, exitStatus, stdout>>

\* review.py:53-55; the iteration ends, its locals and file views are dead.
AppendSection ==
  /\ pc = "append"
  /\ report' = Append(report,
                      ComparedSection(label, pctOf(ratio), statusOf(ratio, THRESHOLD)))
  /\ vp' = vp + 1
  /\ pc' = "loop"
  /\ shot' = NoFile
  /\ ref' = Unread
  /\ a' = NoImage
  /\ r' = NoImage
  /\ ratio' = NoRatio
  /\ d' = NoImage
  /\ UNCHANGED <<THRESHOLD, reportFile, reportWrites, files, browser, launches,
                 attempts, error, exitStatus, stdout>>

\* review.py:57
AppendHints ==
  /\ pc = "loop"
  /\ vp > NumViewports
  /\ report' = Append(report, HintsBlock)
  /\ pc' = "write"
  /\ UNCHANGED <<vp, THRESHOLD, reportFile, reportWrites, files, shot, ref, a, r,
                 ratio, d, browser, launches, attempts, error, exitStatus, stdout>>

\* review.py:58
WriteReport ==
  /\ pc = "write"
  /\ reportFile' = report
  /\ reportWrites' = reportWrites + 1
  /\ files' = files \cup {reportPath}
  /\ pc' = "print"
  /\ UNCHANGED <<vp, THRESHOLD, report, shot, ref, a, r, ratio, d, browser,
                 launches, attempts, error, exitStatus, stdout>>

\* review.py:59, then main() returns and the process exits with status 0.
PrintDone ==
  /\ pc = "print"
  /\ stdout' = TRUE
  /\ exitStatus' = "0"
  /\ pc' = "done"
  /\ UNCHANGED <<vp, THRESHOLD, report, reportFile, reportWrites, files, shot, ref,
                 a, r, ratio, d, browser, launches, attempts, error>>

Next ==
  \/ Start
  \/ Launch
  \/ Goto
  \/ WaitForSelector
  \/ Screenshot
  \/ Close
  \/ CheckRef
  \/ Decode
  \/ Compare
  \/ SaveDiff
  \/ AppendSection
  \/ AppendHints
  \/ WriteReport
  \/ PrintDone

Spec == Init /\ [][Next]_vars

\* -------------------------------------------------------------- claims

Ended == pc \in {"done", "crashed"}

Failed == error # NoError

ReportWritten == reportWrites > 0

IsSection(b) == b.kind \in {"skipped", "compared"}

\* The written report holds a block about viewport j.
HasSectionFor(j) ==
  \E k \in 1..Len(reportFile) : reportFile[k].label = VIEWPORTS[j].label

LastOf(s) == s[Len(s)]

\* C1: per-viewport error isolation -- when a capture or a decode of one
\* viewport has failed, the run that ended has still written the report, with
\* the section of every other viewport in it.
C1_ErrorIsolation ==
  (Ended /\ Failed) =>
    /\ ReportWritten
    /\ \A j \in 1..NumViewports : j # error.vp => HasSectionFor(j)

\* C2: whenever report.md is written it holds exactly one section per viewport,
\* in registry order, followed by exactly one hints block (after the title
\* line), whatever the outcome of each viewport.
C2_ReportShape ==
  ReportWritten =>
    /\ Len(reportFile) = NumViewports + 2
    /\ reportFile[1] = TitleBlock
    /\ \A j \in 1..NumViewports :
         /\ IsSection(reportFile[j + 1])
         /\ reportFile[j + 1].label = VIEWPORTS[j].label
    /\ LastOf(reportFile) = HintsBlock

C2_Witness ==
  /\ ReportWritten
  /\ reportFile[2].kind = "skipped"
  /\ reportFile[3].kind = "compared"

\* C3: a viewport whose capture or decode failed is recorded in the written
\* report as one that could not be evaluated (never absent, never as Pass,
\* Fail or Skipped).
C3_FailureRecorded ==
  (Ended /\ Failed) =>
    \E k \in 1..Len(reportFile) :
      /\ reportFile[k].label = VIEWPORTS[error.vp].label
      /\ reportFile[k].kind = "unevaluated"

\* C4: the reference check of a viewport whose reference image is absent
\* appends that viewport's Skipped section (neither Pass nor Fail), raises no
\* error, performs no comparison and writes no diff, and goes on to the next
\* viewport.
C4_MissingReferenceSkipped ==
  [][(pc = "check_ref" /\ ref = NoFile) =>
       /\ report' = Append(report, SkippedSection(VIEWPORTS[vp].label))
       /\ LastOf(report').status \notin {"Pass", "Fail"}
       /\ error' = NoError
       /\ exitStatus' = "running"
       /\ ratio' = NoRatio
       /\ d' = NoImage
       /\ diffPath(VIEWPORTS[vp].label) \notin files'
       /\ vp' = vp + 1
       /\ pc' = "loop"]_vars

C4_Witness ==
  /\ pc = "goto"
  /\ vp = 2
  /\ report[2] = SkippedSection("desktop")
  /\ error = NoError

\* C5: a compared viewport's status is Fail exactly when
\* mismatch_ratio > THRESHOLD; a ratio equal to THRESHOLD is Pass.
C5_FailIffAboveThreshold ==
  [][pc = "append" =>
       /\ LastOf(report').kind = "compared"
       /\ LastOf(report').label = VIEWPORTS[vp].label
       /\ LastOf(report').status \in {"Pass", "Fail"}
       /\ LastOf(report').status = "Fail"
            <=> ratio[1] * THRESHOLD[2] > THRESHOLD[1] * ratio[2]]_vars

\* A ratio of exactly THRESHOLD = 1/2 was reported as Pass.
C5_Witness ==
  /\ THRESHOLD = <<1, 2>>
  /\ Len(report) >= 2
  /\ LastOf(report) = ComparedSection("desktop", 5000, "Pass")

\* Number of pixels of im1 with at least one channel differing from im2.
AnyChannelDiffers(im1, im2) ==
  Cardinality({k \in 1..(im1.w * im1.h) : im1.px[k] # im2.px[k]})

\* C6: on equal-sized images mismatch_ratio is
\* (pixels with any differing channel) / (total pixels), no tolerance.
C6_AnyChannelMetric ==
  (pc = "diff" /\ size(a) = size(r)) =>
    ratio = <<AnyChannelDiffers(a, r), a.w * a.h>>

\* C7: a candidate compared with a pixel-identical reference (also through a
\* resize to its own dimensions) has mismatch_ratio 0 and status Pass for
\* every THRESHOLD >= 0.
C7_IdenticalPass ==
  [][(pc = "append" /\ a = r /\ THRESHOLD[1] >= 0) =>
       /\ ratio = <<0, a.w * a.h>>
       /\ \A z \in resize(r, size(a)) : ratioOf(a, z)[1] = 0
       /\ LastOf(report') = ComparedSection(VIEWPORTS[vp].label, 0, "Pass")]_vars

C7_Witness ==
  /\ pc = "loop"
  /\ THRESHOLD = <<0, 1>>
  /\ Len(report) >= 2
  /\ LastOf(report) = ComparedSection("desktop", 0, "Pass")

\* C8: for images of equal pixel dimensions mismatch_ratio(a, b) equals
\* mismatch_ratio(b, a).
C8_Symmetric ==
  (pc \in {"diff", "append"} /\ size(a) = size(r)) => mismatch_ratio(r, a) = {ratio}

C8_Witness ==
  /\ pc = "diff"
  /\ size(a) = size(r)
  /\ ratio = <<1, 2>>

\* C9: report.md is written at most once per run and only after every
\* viewport has been processed; before that no report, not even a partial
\* one, has been written.
C9_WrittenOnceAtEnd ==
  /\ reportWrites <= 1
  /\ (vp <= NumViewports \/ pc \notin {"print", "done"}) =>
       /\ reportWrites = 0
       /\ reportFile = NoReport
       /\ reportPath \notin files

C9_Witness ==
  /\ pc = "done"
  /\ reportWrites = 1
  /\ reportPath \in files

\* C10: a run in which a capture or decode failure occurred ends with a
\* non-zero status, and only after having written out the sections of the
\* viewports that succeeded before the failure.
C10_ReportBeforeNonZeroExit ==
  (Ended /\ Failed) =>
    /\ exitStatus = "1"
    /\ \A j \in 1..NumViewports : j < error.vp => HasSectionFor(j)

\* C11: diff-<label>.png is written exactly for the viewports whose reference
\* was found and whose comparison was carried out -- for every compared
\* viewport, Pass or Fail, and never for a skipped one (nor for one not yet
\* compared).
C11_DiffIffCompared ==
  \A j \in 1..NumViewports :
    diffPath(VIEWPORTS[j].label) \in files <=>
      \/ /\ j < vp
         /\ report[j + 1].kind = "compared"
         /\ report[j + 1].status \in {"Pass", "Fail"}
      \/ /\ j = vp
         /\ pc = "append"
         /\ ref \notin {NoFile, Corrupt, Unread}
         /\ ratio # NoRatio

\* A run that ended with a passing desktop (diff written) and a skipped mobile.
C11_Witness ==
  /\ pc = "done"
  /\ reportFile[2].kind = "compared"
  /\ reportFile[2].status = "Pass"
  /\ reportFile[3].kind = "skipped"
  /\ files = {actualPath("desktop"), diffPath("desktop"), actualPath("mobile"), reportPath}

\* The reference check, the decoding, the comparison or the diff of the
\* current viewport is under way or done.
PastCapture == pc \in {"check_ref", "decode", "compare", "diff", "append"}

Capturing == pc \in {"goto", "wait", "screenshot", "close"}

\* C12: every viewport's capture is attempted at most once per run (never
\* retried), before that viewport's reference check and comparison; decoded
\* images, a ratio or a diff of a viewport exist only once its capture has
\* completed with a screenshot written.
C12_CaptureOnceBeforeCompare ==
  /\ \A j \in 1..NumViewports :
       /\ attempts[j] <= 1
       /\ j < vp => attempts[j] = 1
       /\ j > vp => attempts[j] = 0
  /\ PastCapture =>
       /\ attempts[vp] = 1
       /\ shot \in Screenshots
       /\ actualPath(label) \in files
       /\ browser = {}
  /\ (a # NoImage \/ r # NoImage \/ ratio # NoRatio \/ d # NoImage
        \/ diffPath(label) \in files) =>
       /\ attempts[vp] = 1
       /\ shot \in Screenshots
       /\ ~Capturing
  /\ (Capturing /\ pc # "close") => (shot = NoFile /\ actualPath(label) \notin files)
  /\ (Failed /\ error.kind \in {"NavigationError", "CaptureTimeout"}) =>
       /\ attempts[error.vp] = 1
       /\ shot = NoFile
       /\ a = NoImage /\ r = NoImage /\ ratio = NoRatio /\ d = NoImage
       /\ diffPath(label) \notin files

\* The second viewport is being diffed after its single, completed capture.
C12_Witness ==
  /\ pc = "append"
  /\ vp = 2
  /\ attempts = [k \in 1..NumViewports |-> 1]
  /\ d # NoImage

\* C13: differing pixel dimensions of candidate and reference are no error --
\* the reference is resized to the candidate's dimensions, the comparison
\* completes with a ratio in [0,1] over the candidate's pixel count, the diff
\* step completes, and the viewport gets a Pass or Fail section.
C13_SizeMismatchCompensated ==
  [][(size(a) # size(r) /\ pc \in {"compare", "diff", "append"}) =>
       /\ error' = NoError
       /\ exitStatus' = "running"
       /\ pc = "compare" =>
            /\ pc' = "diff"
            /\ \E z \in resize(r, size(a)) :
                 /\ size(z) = size(a)
                 /\ ratio' = ratioOf(a, z)
            /\ ratio'[2] = a.w * a.h
            /\ 0 <= ratio'[1] /\ ratio'[1] <= ratio'[2]
       /\ pc = "diff" => (pc' = "append" /\ ratio' = ratio)
       /\ pc = "append" =>
            /\ LastOf(report').kind = "compared"
            /\ LastOf(report').label = VIEWPORTS[vp].label
            /\ LastOf(report').status \in {"Pass", "Fail"}
            /\ LastOf(report').pct = pctOf(ratio)
            /\ ratio[2] = a.w * a.h]_vars

\* A two-pixel candidate was compared with a one-pixel reference and reported.
C13_Witness ==
  /\ pc = "append"
  /\ a.w * a.h = 2
  /\ r.w * r.h = 1
  /\ ratio = <<1, 2>>

RECURSIVE SumTo(_, _)
SumTo(f, n) == IF n = 0 THEN 0 ELSE f[n] + SumTo(f, n - 1)

\* C14: every screenshot() call launches its own browser instance and tears it
\* down before the call ends, on success and on failure: the only instance
\* ever alive is the one the running call launched, at most one is alive at a
\* time, and none is alive outside a call or when the run has ended.
C14_FreshBrowserPerCapture ==
  /\ launches = SumTo(attempts, NumViewports)
  /\ Cardinality(browser) <= 1
  /\ browser \subseteq {launches}
  /\ Capturing => (browser = {launches} /\ launches = vp)
  /\ ~Capturing => browser = {}
  /\ Ended => browser = {}

\* The second capture timed out and its browser, the second instance, is gone.
C14_Witness ==
  /\ pc = "crashed"
  /\ error = [vp |-> 2, kind |-> "CaptureTimeout"]
  /\ launches = 2
  /\ browser = {}

\* C15: the saved diff image is the per-pixel difference of the candidate and
\* the reference normalized to the candidate's dimensions (the pair the ratio
\* was computed from); it always has the candidate's dimensions.
C15_DiffOfNormalizedPair ==
  pc = "append" =>
    /\ size(d) = size(a)
    /\ \E z \in resize(r, size(a)) : d = difference(a, z)

====
